---- MODULE Spec2Model ----
(***************************************************************************)
(* APIRequestBuilder (src/src/APIBuilder.ts): a fluent builder that        *)
(* accumulates the parts of one HTTP request and hands them to axios.      *)
(*                                                                         *)
(* The builder is one object whose private fields are the variables below. *)
(* The HTTP transport (axios) is the environment: it records each config   *)
(* object it is called with and later settles the promise it returned.     *)
(* A JavaScript turn runs to completion, so every method call is one       *)
(* action; an async execute() runs up to its await in the calling turn and *)
(* its continuation runs in a later turn, after the promise has settled.   *)
(***************************************************************************)
EXTENDS Integers, Sequences, FiniteSets, TLC

VARIABLES
    method,        \* private method: string
    baseUrl,       \* private baseUrl: string
    resource,      \* private resource: string
    headers,       \* private headers: Record<string, string>
    data,          \* private data?: any
    queryParams,   \* private queryParams: Record<string, string | number>
    responseType,  \* private responseType
    token,         \* constructor parameter property `private token?: string`
    requests,      \* transport: the config objects axios was called with, in order
    replies,       \* transport: the settlement of the promise of each request
    executions,    \* one entry per execute() call: its request and its outcome
    history        \* the calls made on the builder so far, constructor first

vars == <<method, baseUrl, resource, headers, data, queryParams, responseType,
          token, requests, replies, executions, history>>

config == <<method, baseUrl, resource, headers, data, queryParams, responseType, token>>

----------------------------------------------------------------------------
(* Bounds and input sets *)

MaxCalls == 3

Undefined == "<undefined>"

Urls == {"", "https://api.example.com", "http://localhost"}
CtorUrls == {"", "https://api.example.com", Undefined}
CtorTokens == {Undefined, "", "T"}
Tokens == {"T", "x"}
Paths == {"", "/users"}
Bodies == {"b1", "b2"}
Params == {("a" :> 1), ("limit" :> 10)}
ResponseTypes == {"arraybuffer", "blob", "document", "json", "text", "stream"}
Responses == {"r1"}
TransportErrors == {"e1"}

----------------------------------------------------------------------------
(* JavaScript values *)

\* truthiness of a string-or-undefined value: `if (this.token)`, `!this.baseUrl`
Truthy(v) == v # "" /\ v # Undefined

\* a value inside a template literal: `${v}`
Str(v) == IF v = Undefined THEN "undefined" ELSE v

\* `Bearer ${token}`
Bearer(t) == "Bearer " \o Str(t)

\* headers: Record<string, string> = {}
NoHeaders == <<>>

\* queryParams: Record<string, string | number> = {}
NoParams == <<>>

\* this.headers.Authorization = v : one key written, the others kept
SetAuthorization(h, v) == ("Authorization" :> v) @@ h

Pending == [kind |-> "pending", value |-> ""]
Fulfilled(v) == [kind |-> "fulfilled", value |-> v]
Rejected(e) == [kind |-> "rejected", value |-> e]

\* new Error('Base URL is missing. Use setBaseUrl() to set it.')
MissingBaseUrl == "Base URL is missing. Use setBaseUrl() to set it."

\* The call history: a record of the calls made on the builder, kept so that
\* properties can speak of "the last call that ..."; the builder never reads it.
Call(op, arg) == [op |-> op, arg |-> arg]

\* at most MaxCalls calls follow the constructor
CanCall == Len(history) <= MaxCalls

Record(op, arg) == history' = Append(history, Call(op, arg))

----------------------------------------------------------------------------
(* The builder *)

\* variant: the constructor tests `token !== undefined` instead of truthiness
constructorAnyToken(url, tok) ==
    /\ method = "GET"
    /\ baseUrl = url
    /\ resource = ""
    /\ token = tok
    /\ headers = IF tok # Undefined THEN SetAuthorization(NoHeaders, Bearer(tok)) ELSE NoHeaders
    /\ data = Undefined
    /\ queryParams = NoParams
    /\ responseType = "json"
    /\ requests = <<>>
    /\ replies = <<>>
    /\ executions = <<>>
    /\ history = <<Call("new", <<url, tok>>)>>

constructor(url, tok) ==
    /\ method = "GET"
    /\ baseUrl = url
    /\ resource = ""
    /\ token = tok
    /\ headers = IF Truthy(tok) THEN SetAuthorization(NoHeaders, Bearer(tok)) ELSE NoHeaders
    /\ data = Undefined
    /\ queryParams = NoParams
    /\ responseType = "json"
    /\ requests = <<>>
    /\ replies = <<>>
    /\ executions = <<>>
    /\ history = <<Call("new", <<url, tok>>)>>

Init == \E url \in CtorUrls, tok \in CtorTokens : constructor(url, tok)

\* variant: get() also clears the body
getClearsData ==
    /\ CanCall
    /\ method' = "GET"
    /\ data' = Undefined
    /\ Record("get", Undefined)
    /\ UNCHANGED <<baseUrl, resource, headers, queryParams, responseType,
                   token, requests, replies, executions>>

get ==
    /\ CanCall
    /\ method' = "GET"
    /\ Record("get", Undefined)
    /\ UNCHANGED <<baseUrl, resource, headers, data, queryParams, responseType,
                   token, requests, replies, executions>>

post(d) ==
    /\ CanCall
    /\ method' = "POST"
    /\ data' = d
    /\ Record("post", d)
    /\ UNCHANGED <<baseUrl, resource, headers, queryParams, responseType,
                   token, requests, replies, executions>>

put(d) ==
    /\ CanCall
    /\ method' = "PUT"
    /\ data' = d
    /\ Record("put", d)
    /\ UNCHANGED <<baseUrl, resource, headers, queryParams, responseType,
                   token, requests, replies, executions>>

delete ==
    /\ CanCall
    /\ method' = "DELETE"
    /\ Record("delete", Undefined)
    /\ UNCHANGED <<baseUrl, resource, headers, data, queryParams, responseType,
                   token, requests, replies, executions>>

patch(d) ==
    /\ CanCall
    /\ method' = "PATCH"
    /\ data' = d
    /\ Record("patch", d)
    /\ UNCHANGED <<baseUrl, resource, headers, queryParams, responseType,
                   token, requests, replies, executions>>

setBaseUrl(url) ==
    /\ CanCall
    /\ baseUrl' = url
    /\ Record("setBaseUrl", url)
    /\ UNCHANGED <<method, resource, headers, data, queryParams, responseType,
                   token, requests, replies, executions>>

\* variant: the config handed to axios reads the path from the builder lazily
setRelativePathLive(resourcePath) ==
    /\ CanCall
    /\ resource' = resourcePath
    /\ requests' = [i \in DOMAIN requests |->
                       [requests[i] EXCEPT !.url = Str(baseUrl) \o Str(resourcePath)]]
    /\ Record("setRelativePath", resourcePath)
    /\ UNCHANGED <<method, baseUrl, headers, data, queryParams, responseType,
                   token, replies, executions>>

setRelativePath(resourcePath) ==
    /\ CanCall
    /\ resource' = resourcePath
    /\ Record("setRelativePath", resourcePath)
    /\ UNCHANGED <<method, baseUrl, headers, data, queryParams, responseType,
                   token, requests, replies, executions>>

\* variant: the new parameters are merged into the old ones
setQueryParametersMerge(params) ==
    /\ CanCall
    /\ queryParams' = params @@ queryParams
    /\ Record("setQueryParameters", params)
    /\ UNCHANGED <<method, baseUrl, resource, headers, data, responseType,
                   token, requests, replies, executions>>

setQueryParameters(params) ==
    /\ CanCall
    /\ queryParams' = params
    /\ Record("setQueryParameters", params)
    /\ UNCHANGED <<method, baseUrl, resource, headers, data, responseType,
                   token, requests, replies, executions>>

\* The headers object is mutated in place, and every config object handed to
\* axios holds a reference to that same object (headers: this.headers).
setToken(tok) ==
    /\ CanCall
    /\ headers' = SetAuthorization(headers, Bearer(tok))
    /\ requests' = [i \in DOMAIN requests |-> [requests[i] EXCEPT !.headers = headers']]
    /\ Record("setToken", tok)
    /\ UNCHANGED <<method, baseUrl, resource, data, queryParams, responseType,
                   token, replies, executions>>

setResponseType(type) ==
    /\ CanCall
    /\ responseType' = type
    /\ Record("setResponseType", type)
    /\ UNCHANGED <<method, baseUrl, resource, headers, data, queryParams,
                   token, requests, replies, executions>>

\* variant: the validation tests for an absent base URL only
validateAbsentOnly == baseUrl = Undefined

\* TRUE when validateRequestComponents() throws
validateRequestComponents == ~Truthy(baseUrl)

\* variant: a "/" is put between the base URL and the path
AxiosConfigSlash ==
    [method       |-> method,
     url          |-> Str(baseUrl) \o "/" \o Str(resource),
     data         |-> data,
     headers      |-> headers,
     params       |-> queryParams,
     responseType |-> responseType]

\* the object literal passed to axios(...)
AxiosConfig ==
    [method       |-> method,
     url          |-> Str(baseUrl) \o Str(resource),
     data         |-> data,
     headers      |-> headers,
     params       |-> queryParams,
     responseType |-> responseType]

\* variant: axios is called before the configuration is validated
executeValidatesLate ==
    /\ CanCall
    /\ Record("execute", Undefined)
    /\ requests' = Append(requests, AxiosConfig)
    /\ replies' = Append(replies, Pending)
    /\ executions' = Append(executions,
                        IF ~Truthy(baseUrl)
                          THEN [request |-> 0, result |-> Rejected(MissingBaseUrl)]
                          ELSE [request |-> Len(requests) + 1, result |-> Pending])
    /\ UNCHANGED config

\* execute() up to its await: validation, then the call of axios.  A throw
\* inside an async function rejects the promise execute() returns.
execute ==
    /\ CanCall
    /\ Record("execute", Undefined)
    /\ IF validateRequestComponents
         THEN /\ executions' = Append(executions,
                                  [request |-> 0, result |-> Rejected(MissingBaseUrl)])
              /\ UNCHANGED <<requests, replies>>
         ELSE /\ requests' = Append(requests, AxiosConfig)
              /\ replies' = Append(replies, Pending)
              /\ executions' = Append(executions,
                                  [request |-> Len(requests) + 1, result |-> Pending])
    /\ UNCHANGED config

\* variant: the transport's error is wrapped in a new error
ResumeWrapped(reply) ==
    IF reply.kind = "fulfilled"
      THEN Fulfilled(reply.value)
      ELSE Rejected("Request failed: " \o reply.value)

\* what the continuation of execute() does with the settled axios promise:
\* `return await axios(...)` on fulfilment, `catch (error) { throw error; }`
Resume(reply) ==
    IF reply.kind = "fulfilled" THEN Fulfilled(reply.value) ELSE Rejected(reply.value)

\* variant: the builder is reset once its request has ended
executeResumeResets(k) ==
    /\ executions[k].result = Pending
    /\ executions[k].request # 0
    /\ replies[executions[k].request] # Pending
    /\ executions' = [executions EXCEPT ![k].result = Resume(replies[executions[k].request])]
    /\ method' = "GET"
    /\ data' = Undefined
    /\ resource' = ""
    /\ queryParams' = NoParams
    /\ UNCHANGED <<baseUrl, headers, responseType, token, requests, replies, history>>

\* execute() after its await, for the k-th execute() call
executeResume(k) ==
    /\ executions[k].result = Pending
    /\ executions[k].request # 0
    /\ replies[executions[k].request] # Pending
    /\ executions' = [executions EXCEPT ![k].result = Resume(replies[executions[k].request])]
    /\ UNCHANGED <<config, requests, replies, history>>

----------------------------------------------------------------------------
(* The transport *)

\* axios settles the promise of request i: a response, or an error
transportSettle(i, outcome) ==
    /\ replies[i] = Pending
    /\ replies' = [replies EXCEPT ![i] = outcome]
    /\ UNCHANGED <<config, requests, executions, history>>

TransportOutcomes ==
    {Fulfilled(r) : r \in Responses} \cup {Rejected(e) : e \in TransportErrors}

----------------------------------------------------------------------------

Next ==
    \/ get
    \/ \E d \in Bodies : post(d)
    \/ \E d \in Bodies : put(d)
    \/ delete
    \/ \E d \in Bodies : patch(d)
    \/ \E url \in Urls : setBaseUrl(url)
    \/ \E p \in Paths : setRelativePath(p)
    \/ \E q \in Params : setQueryParameters(q)
    \/ \E t \in Tokens : setToken(t)
    \/ \E t \in ResponseTypes : setResponseType(t)
    \/ execute
    \/ \E k \in DOMAIN executions : executeResume(k)
    \/ \E i \in DOMAIN replies, o \in TransportOutcomes : transportSettle(i, o)

Spec == Init /\ [][Next]_vars

----------------------------------------------------------------------------
(* Reading the call history *)

Last(s) == s[Len(s)]

\* the index of the last call in h whose name is in ops, 0 when there is none
LastIdx(h, ops) ==
    LET S == {i \in DOMAIN h : h[i].op \in ops}
    IN  IF S = {} THEN 0 ELSE CHOOSE i \in S : \A j \in S : j <= i

\* the argument of the last call in h whose name is in ops, dflt when none
LastArg(h, ops, dflt) ==
    LET i == LastIdx(h, ops) IN IF i = 0 THEN dflt ELSE h[i].arg

\* this step is a call of the builder method op
Calls(op) == Len(history') = Len(history) + 1 /\ Last(history').op = op

MethodCalls == {"get", "post", "put", "delete", "patch"}
BodyCalls == {"post", "put", "patch"}

MethodOf(op) ==
    CASE op = "get" -> "GET"
      [] op = "post" -> "POST"
      [] op = "put" -> "PUT"
      [] op = "delete" -> "DELETE"
      [] op = "patch" -> "PATCH"

\* the base URL the calls of h leave behind
BaseUrlAfter(h) ==
    LET i == LastIdx(h, {"new", "setBaseUrl"})
    IN  IF h[i].op = "new" THEN h[i].arg[1] ELSE h[i].arg

\* the execute() calls of h made while the base URL was neither empty nor absent
PassingExecutes(h) ==
    {i \in DOMAIN h : /\ h[i].op = "execute"
                      /\ BaseUrlAfter(SubSeq(h, 1, i - 1)) \notin {"", Undefined}}

----------------------------------------------------------------------------
(* C1: whenever execute() is called while baseUrl is empty or absent, that  *)
(* execute() fails with the MissingConfiguration error, whose message names *)
(* the base URL and setBaseUrl, and the transport is not invoked: the       *)
(* transport's record of calls is unchanged by that execute().              *)
C1_MissingConfiguration ==
    [][(Calls("execute") /\ baseUrl \in {"", Undefined})
         => /\ requests' = requests
            /\ replies' = replies
            /\ Len(executions') = Len(executions) + 1
            /\ Last(executions').request = 0
            /\ Last(executions').result =
                 [kind |-> "rejected",
                  value |-> "Base URL is missing. Use setBaseUrl() to set it."]]_vars

\* a builder whose base URL was emptied by setBaseUrl("") has executed
C1_Witness ==
    /\ Len(history) = 3
    /\ history[2] = Call("setBaseUrl", "")
    /\ history[3].op = "execute"
    /\ history[1].arg[1] = "https://api.example.com"
    /\ Len(executions) = 1
    /\ executions[1].result = Rejected(MissingBaseUrl)
    /\ requests = <<>>

(* C2: every execute() that passes validation hands the transport one       *)
(* descriptor whose url is the current baseUrl immediately followed by the  *)
(* current resourcePath, and whose method, headers, query parameters and    *)
(* response type are the builder's current values (GET and json when never  *)
(* set).                                                                    *)
C2_Descriptor ==
    [][(Calls("execute") /\ baseUrl \notin {"", Undefined})
         => /\ Len(requests') = Len(requests) + 1
            /\ SubSeq(requests', 1, Len(requests)) = requests
            /\ LET d == Last(requests')
               IN  /\ d.url = baseUrl \o resource
                   /\ (resource = "" => d.url = baseUrl)
                   /\ d.method = method
                   /\ d.headers = headers
                   /\ d.params = queryParams
                   /\ d.responseType = responseType
                   /\ (LastIdx(history, MethodCalls) = 0 => d.method = "GET")
                   /\ (LastIdx(history, {"setResponseType"}) = 0
                         => d.responseType = "json")]_vars

\* the README's example: base URL and token, a path, query parameters, execute
C2_Witness ==
    /\ Len(requests) = 1
    /\ requests[1].method = "GET"
    /\ requests[1].url = "https://api.example.com/users"
    /\ requests[1].headers = ("Authorization" :> "Bearer T")
    /\ requests[1].params = ("limit" :> 10)
    /\ requests[1].responseType = "json"

(* C3: after any sequence of calls each field holds the argument of the     *)
(* last call that writes it: baseUrl, resourcePath, response type and query *)
(* parameters are replaced entirely (never merged), the method is that of   *)
(* the last method-selection call, the body that of the last post/put/patch.*)
C3_LastWriteWins ==
    /\ baseUrl = BaseUrlAfter(history)
    /\ resource = LastArg(history, {"setRelativePath"}, "")
    /\ responseType = LastArg(history, {"setResponseType"}, "json")
    /\ queryParams = LastArg(history, {"setQueryParameters"}, NoParams)
    /\ LET i == LastIdx(history, MethodCalls)
       IN  method = IF i = 0 THEN "GET" ELSE MethodOf(history[i].op)
    /\ data = LastArg(history, BodyCalls, Undefined)

\* setQueryParameters({a:1}).setQueryParameters({limit:10}) and a repeated post
C3_Witness ==
    /\ Len(history) = 4
    /\ history[2] = Call("setQueryParameters", ("a" :> 1))
    /\ history[3] = Call("setQueryParameters", ("limit" :> 10))
    /\ history[4].op = "put"
    /\ DOMAIN queryParams = {"limit"}
    /\ method = "PUT"

(* C4: constructing with a non-empty token T sets headers.Authorization to  *)
(* "Bearer " + T, constructing without a token or with an empty one leaves  *)
(* no Authorization entry; a later setToken(x) sets headers.Authorization   *)
(* to "Bearer " + x and leaves every other header entry unchanged.          *)
C4_Authorization ==
    /\ [](LET tok == history[1].arg[2]
              i == LastIdx(history, {"setToken"})
          IN  /\ (i = 0 /\ tok \notin {"", Undefined})
                    => /\ "Authorization" \in DOMAIN headers
                       /\ headers["Authorization"] = "Bearer " \o tok
              /\ (i = 0 /\ tok \in {"", Undefined})
                    => "Authorization" \notin DOMAIN headers
              /\ i # 0
                    => /\ "Authorization" \in DOMAIN headers
                       /\ headers["Authorization"] = "Bearer " \o history[i].arg)
    /\ [][Calls("setToken")
            => /\ DOMAIN headers' = DOMAIN headers \cup {"Authorization"}
               /\ \A k \in DOMAIN headers \ {"Authorization"} :
                      headers'[k] = headers[k]]_vars

\* constructed with token "T", then setToken("x")
C4_Witness ==
    /\ history[1].arg[2] = "T"
    /\ Len(history) = 2
    /\ history[2] = Call("setToken", "x")
    /\ headers = ("Authorization" :> "Bearer x")

(* C5: every setter changes only the fields it names: get and delete change *)
(* the method only (post(b) then get() leaves the body b), post/put/patch   *)
(* change method and body only, and setBaseUrl, setRelativePath,            *)
(* setQueryParameters, setToken and setResponseType change their own field  *)
(* only and never reset method or body.                                     *)
C5_Frame ==
    [][/\ (Calls("get") \/ Calls("delete"))
            => UNCHANGED <<baseUrl, resource, headers, data, queryParams, responseType>>
       /\ (Calls("post") \/ Calls("put") \/ Calls("patch"))
            => UNCHANGED <<baseUrl, resource, headers, queryParams, responseType>>
       /\ Calls("setBaseUrl")
            => UNCHANGED <<method, resource, headers, data, queryParams, responseType>>
       /\ Calls("setRelativePath")
            => UNCHANGED <<method, baseUrl, headers, data, queryParams, responseType>>
       /\ Calls("setQueryParameters")
            => UNCHANGED <<method, baseUrl, resource, headers, data, responseType>>
       /\ Calls("setToken")
            => UNCHANGED <<method, baseUrl, resource, data, queryParams, responseType>>
       /\ Calls("setResponseType")
            => UNCHANGED <<method, baseUrl, resource, headers, data, queryParams>>]_vars

\* post("b1").get().setRelativePath("/users"): the body is still "b1"
C5_Witness ==
    /\ Len(history) = 4
    /\ history[2] = Call("post", "b1")
    /\ history[3].op = "get"
    /\ history[4] = Call("setRelativePath", "/users")
    /\ method = "GET"
    /\ data = "b1"

(* C6: an execute() that passed validation ends as the transport did: with  *)
(* the transport's response value, or with the identical error the          *)
(* transport failed with, and the transport is called once for it, never a  *)
(* second time.                                                             *)
C6_Propagation ==
    /\ \A k \in DOMAIN executions :
          LET e == executions[k]
          IN  (e.request # 0 /\ e.result.kind # "pending")
                 => /\ e.request \in DOMAIN replies
                    /\ e.result.kind = replies[e.request].kind
                    /\ e.result.value = replies[e.request].value
    /\ \A k1, k2 \in DOMAIN executions :
          (executions[k1].request # 0 /\ executions[k1].request = executions[k2].request)
             => k1 = k2
    /\ Len(requests) = Cardinality({k \in DOMAIN executions : executions[k].request # 0})

\* one execute() returned the response "r1", another failed with the error "e1"
C6_Witness ==
    /\ Len(executions) = 2
    /\ executions[1].result = Fulfilled("r1")
    /\ executions[2].result = Rejected("e1")
    /\ Len(requests) = 2

(* C7: each execute() call either fails validation with no transport call   *)
(* or causes exactly one; the number of transport calls equals the number   *)
(* of execute() calls that passed validation; and an execute() call has one *)
(* outcome only, which is MissingConfiguration, the transport's response or *)
(* the transport's error.                                                   *)
C7_OneRequestPerExecute ==
    /\ [](/\ Len(executions) = Cardinality({i \in DOMAIN history : history[i].op = "execute"})
          /\ Len(requests) = Cardinality(PassingExecutes(history))
          /\ Len(replies) = Len(requests)
          /\ \A k \in DOMAIN executions :
                LET e == executions[k]
                IN  \/ e.request = 0 /\ e.result = Rejected(MissingBaseUrl)
                    \/ /\ e.request \in DOMAIN requests
                       /\ \/ e.result.kind = "pending"
                          \/ e.result.kind = "fulfilled" /\ e.result.value \in Responses
                          \/ e.result.kind = "rejected" /\ e.result.value \in TransportErrors)
    /\ [][/\ Len(requests') \in {Len(requests), Len(requests) + 1}
          /\ Len(requests') = Len(requests) + 1 => Calls("execute")
          /\ \A k \in DOMAIN executions :
                executions[k].result.kind # "pending" => executions'[k] = executions[k]]_vars

\* one execute() failed validation, a later one made a request that has ended
C7_Witness ==
    /\ Len(executions) = 2
    /\ executions[1].request = 0
    /\ executions[2].request = 1
    /\ executions[2].result.kind = "fulfilled"
    /\ Len(requests) = 1

(* C8: execute() leaves every configuration field unchanged, whether it     *)
(* fails validation, succeeds or ends in a transport error; a second        *)
(* execute() with no setter call in between hands the transport a           *)
(* descriptor equal to the first.                                           *)
C8_ExecuteKeepsConfiguration ==
    [][/\ (Calls("execute") \/ history' = history)
            => UNCHANGED <<method, baseUrl, resource, headers, data, queryParams, responseType>>
       /\ (Calls("execute") /\ Last(history).op = "execute" /\ Last(executions).request # 0)
            => /\ Len(requests') = Len(requests) + 1
               /\ Last(requests') = Last(requests)]_vars

\* two execute() calls in a row, the first of which ended in a transport error
C8_Witness ==
    /\ Len(history) = 4
    /\ history[3].op = "execute"
    /\ history[4].op = "execute"
    /\ Len(requests) = 2
    /\ requests[1] = requests[2]
    /\ executions[1].result = Rejected("e1")

(* C9: when execute() is called while the method is GET or DELETE, the      *)
(* descriptor handed to the transport carries no body, even if an earlier   *)
(* post/put/patch stored one (post(b).get().execute() sends no body).       *)
C9_NoBodyOnGetOrDelete ==
    \A i \in DOMAIN requests :
        requests[i].method \in {"GET", "DELETE"} => requests[i].data = Undefined

(* C10: execute() validates and builds its descriptor in one step, so the   *)
(* transport is never invoked with a url built from an empty baseUrl; and   *)
(* no call made while a request is in flight changes the url, method, body, *)
(* query parameters or response type of a descriptor already handed over.   *)
C10_HandedOverDescriptor ==
    [][/\ Len(requests') > Len(requests)
            => /\ baseUrl \notin {"", Undefined}
               /\ baseUrl' = baseUrl
               /\ Last(requests').url = baseUrl' \o resource'
       /\ \A i \in DOMAIN requests :
             /\ i \in DOMAIN requests'
             /\ requests'[i].url = requests[i].url
             /\ requests'[i].method = requests[i].method
             /\ requests'[i].data = requests[i].data
             /\ requests'[i].params = requests[i].params
             /\ requests'[i].responseType = requests[i].responseType]_vars

\* a request is in flight and the builder has since been pointed elsewhere
C10_Witness ==
    /\ Len(requests) = 1
    /\ replies[1] = Pending
    /\ Len(history) = 4
    /\ history[2].op = "execute"
    /\ history[3].op = "setBaseUrl"
    /\ history[4].op = "delete"
    /\ requests[1].url = "https://api.example.com"
    /\ requests[1].method = "GET"
    /\ baseUrl = ""
    /\ method = "DELETE"

====
